---- MODULE Spec2Model ----
(***************************************************************************)
(* Model of the sumdb coordinator (SumDB.Lookup / fetchAndStoreRecord),    *)
(* the tree engine (tree.AddRecord) and a Store that follows the Store     *)
(* interface, with concurrent Lookup callers, singleflight deduplication,  *)
(* store / upstream failures and context cancellation.                     *)
(***************************************************************************)
EXTENDS Integers, Sequences, FiniteSets, TLC

\* ---- bounds ----
NumCallers == 2
NumMods == 2
MaxCalls == 2
MaxFaults == 1
MaxSigned == 2

Callers == 1..NumCallers
Mods == 1..NumMods

VARIABLES
    records,      \* store: sequence of records; the record at position i has id i-1
    hashes,       \* store: storage index -> hash (absent = zero hash)
    treeSize,     \* store: tree size
    flight,       \* singleflight group: key -> leader of the in-flight call (0 = none)
    pc,           \* position of each caller inside Lookup
    mod,          \* module (path, version) of the caller's current Lookup
    cancelled,    \* whether the caller's context has been cancelled
    id,           \* leader: id returned by store.AddRecord
    hs,           \* leader: hashes computed by tlog.StoredHashes
    joined,       \* follower: leader of the call it waits on (0 = none)
    ret,          \* result (id, err) of the caller's Lookup
    lookups,      \* number of Lookup calls started per module
    gomodFetches, \* number of go.mod requests issued per module
    zipFetches,   \* number of zip requests issued per module
    addCalls,     \* number of store.AddRecord calls per module
    faults,       \* number of injected failures and cancellations
    storeKind,    \* which Store is plugged in: "seq0" (ids from 0) or "sqlite" (dbStore)
    signer,       \* the Signed call in progress: its position and the sizes it read
    heads,        \* the tree heads (N, root) signed so far
    nt,           \* a sign / verify round of the signer package
    dbc           \* a direct call of a dbStore method: its input and its output

vars == <<records, hashes, treeSize, flight, pc, mod, cancelled, id, hs, joined,
          ret, lookups, gomodFetches, zipFetches, addCalls, faults,
          storeKind, signer, heads, nt, dbc>>

\* the variables of the store choice, of Signed and of the signer package
auxVars == <<storeKind, signer, heads, nt, dbc>>

\* the variables of Lookup
lookupVars == <<flight, pc, mod, cancelled, id, hs, joined, ret, lookups,
                gomodFetches, zipFetches, addCalls>>

\* ---- hashes (golang.org/x/mod/sumdb/tlog) ----

\* tlog.Hash{}: the all-zero hash
ZeroHash == <<>>

\* tlog.RecordHash: SHA-256(0x00 || data)
RecordHash(data) == <<"leaf", data>>

\* tlog.NodeHash: SHA-256(0x01 || left || right)
NodeHash(left, right) == <<"node", left, right>>

RECURSIVE Pow2(_)
Pow2(n) == IF n = 0 THEN 1 ELSE 2 * Pow2(n - 1)

\* id >> i
Shr(n, i) == n \div Pow2(i)

RECURSIVE SumShifts(_)
\* n + n/2 + n/4 + ... (second loop of tlog.StoredHashIndex)
SumShifts(n) == IF n = 0 THEN 0 ELSE n + SumShifts(n \div 2)

RECURSIVE LevelZero(_, _)
\* first loop of tlog.StoredHashIndex: n = 2n+1, level times
LevelZero(level, n) == IF level = 0 THEN n ELSE LevelZero(level - 1, 2 * n + 1)

\* mutation of StoredHashIndex: the level is ignored, so indexes collide
StoredHashIndexFlat(level, n) == n

\* tlog.StoredHashIndex(level, n)
StoredHashIndex(level, n) == SumShifts(LevelZero(level, n)) + level

RECURSIVE TrailingOnes(_)
\* bits.TrailingZeros64(n + 1): the number of trailing 1-bits of n
TrailingOnes(n) == IF n % 2 = 1 THEN 1 + TrailingOnes(n \div 2) ELSE 0

\* mutation of storedHashIndexes: the id is not shifted to the level
storedHashIndexesNoShift(rid, count) ==
    [i \in 1..count |-> StoredHashIndex(i - 1, rid)]

\* storedHashIndexes(id, count)
storedHashIndexes(rid, count) ==
    [i \in 1..count |-> StoredHashIndex(i - 1, Shr(rid, i - 1))]

\* mockStore.ReadHashes for one index: a missing index reads as the zero hash
ReadHash(idx) == IF idx \in DOMAIN hashes THEN hashes[idx] ELSE ZeroHash

RECURSIVE StoredHashesFrom(_, _, _, _)
\* loop of tlog.StoredHashesForRecordHash: h = NodeHash(old[i], h) for each
\* completed subtree, where old[i] is read at StoredHashIndex(i, n>>i - 1)
StoredHashesFrom(rid, i, h, m) ==
    IF i = m THEN <<>>
    ELSE LET nh == NodeHash(ReadHash(StoredHashIndex(i, Shr(rid, i) - 1)), h)
         IN <<nh>> \o StoredHashesFrom(rid, i + 1, nh, m)

\* tlog.StoredHashes(id, data, hr), reading through the store
StoredHashes(rid, data) ==
    <<RecordHash(data)>> \o
        StoredHashesFrom(rid, 0, RecordHash(data), TrailingOnes(rid))

\* ---- upstream and record data ----

\* proxy.GoMod: h1 hash of the module's go.mod
GoMod(m) == <<"h1mod", m>>

\* proxy.Zip: h1 hash of the module's zip
Zip(m) == <<"h1", m>>

\* Record.Data built by fetchAndStoreRecord
RecordData(m, h1, h1mod) == <<m, h1, m, h1mod>>

\* ---- store ----

\* the id the store gives the first record: 0 for a store that follows the
\* Store contract, 1 for dbStore (SQLite INTEGER PRIMARY KEY AUTOINCREMENT)
FirstID == IF storeKind = "sqlite" THEN 1 ELSE 0

\* the id of the i-th inserted record
RecIdAt(i) == i - 1 + FirstID

\* ids of the records stored for module m
IdsOf(m) == {RecIdAt(i) : i \in {j \in 1..Len(records) : records[j].mod = m}}

HasRecord(m) == IdsOf(m) # {}

\* Store.RecordID on a hit
RecordID(m) == CHOOSE i \in IdsOf(m) : \A j \in IdsOf(m) : i <= j

\* Store.Records(id, n): the records with ids in [id, id+n)
Records(rid, n) ==
    {[id |-> RecIdAt(i), mod |-> records[i].mod, data |-> records[i].data] :
        i \in {j \in 1..Len(records) : rid <= RecIdAt(j) /\ RecIdAt(j) < rid + n}}

\* SumDB.ReadRecords(id, n): the data of those records, keyed by id
ReadRecords(rid, n) == {[id |-> r.id, data |-> r.data] : r \in Records(rid, n)}

\* ---- results ----

NoRet == [id |-> 0, err |-> "none"]
Ok(rid) == [id |-> rid, err |-> "nil"]
Err(e) == [id |-> 0, err |-> e]

\* no Signed call is running
SignerIdle == [pc |-> "idle", size |-> 0, thSize |-> 0, calls |-> 0]

\* no sign / verify round is running
NoteIdle == [phase |-> "none"]

\* no direct dbStore call is running
DbIdle == [op |-> "none"]

Init ==
    /\ records = <<>>
    /\ hashes = <<>>
    /\ treeSize = 0
    /\ flight = [m \in Mods |-> 0]
    /\ pc = [p \in Callers |-> "idle"]
    /\ mod = [p \in Callers |-> 1]
    /\ cancelled = [p \in Callers |-> FALSE]
    /\ id = [p \in Callers |-> 0]
    /\ hs = [p \in Callers |-> <<>>]
    /\ joined = [p \in Callers |-> 0]
    /\ ret = [p \in Callers |-> NoRet]
    /\ lookups = [m \in Mods |-> 0]
    /\ gomodFetches = [m \in Mods |-> 0]
    /\ zipFetches = [m \in Mods |-> 0]
    /\ addCalls = [m \in Mods |-> 0]
    /\ faults = 0
    /\ storeKind = "seq0"
    /\ signer = SignerIdle
    /\ heads = {}
    /\ nt = NoteIdle
    /\ dbc = DbIdle

storeVars == <<records, hashes, treeSize>>
countVars == <<gomodFetches, zipFetches, addCalls>>

RECURSIVE SumTo(_, _)
SumTo(f, n) == IF n = 0 THEN 0 ELSE f[n] + SumTo(f, n - 1)

\* number of Lookup calls started so far
TotalLookups == SumTo(lookups, NumMods)

\* mutation of CanFail: the context of any caller cancels the call
CanFailAnyCancelled(p) == (\E q \in Callers : cancelled[q]) \/ faults < MaxFaults

\* a store or upstream call of caller p can fail: by an injected failure, or
\* because p's context is cancelled
CanFail(p) == cancelled[p] \/ faults < MaxFaults

Charge(p) == faults' = IF cancelled[p] THEN faults ELSE faults + 1

\* mutation of FastPathHit: the fast path never finds the record
FastPathMissed(m) == FALSE

\* the fast path store.RecordID of Lookup finds the record
FastPathHit(m) == HasRecord(m)

\* mutation of NewTreeSize: the size is not advanced past the record
NewTreeSizeStale(rid) == rid

\* the size tree.AddRecord passes to SetTreeSize
NewTreeSize(rid) == rid + 1

\* mutation of InFlight: the group never finds an in-flight call
InFlightNever(m) == FALSE

\* singleflight: a call for the key is in flight
InFlight(m) == flight[m] # 0

\* mutation of DoubleCheckHit: the double-check is skipped
DoubleCheckSkipped(m) == FALSE

\* the double-check of fetchAndStoreRecord finds the record
DoubleCheckHit(m) == HasRecord(m)

\* mutation of Waiting: the completion of a call reaches no duplicate
WaitingNever(q, p) == FALSE

\* singleflight: caller q is a duplicate blocked in c.wg.Wait() on the call
\* that p leads
Waiting(q, p) == pc[q] = "wait" /\ joined[q] = p

\* singleflight doCall completes with result r: the key is deleted, the leader
\* returns r from Lookup and every waiting duplicate is handed the same r
Finish(p, r) ==
    /\ flight' = [flight EXCEPT ![mod[p]] = 0]
    /\ pc' = [q \in Callers |->
                IF q = p THEN "done"
                ELSE IF Waiting(q, p) THEN "woken" ELSE pc[q]]
    /\ ret' = [q \in Callers |->
                IF q = p \/ Waiting(q, p) THEN r ELSE ret[q]]
    /\ joined' = [q \in Callers |->
                IF Waiting(q, p) THEN 0 ELSE joined[q]]
    /\ id' = [id EXCEPT ![p] = 0]
    /\ hs' = [hs EXCEPT ![p] = <<>>]

\* a caller invokes SumDB.Lookup(ctx, mod)
Lookup(p, m) ==
    /\ pc[p] \in {"idle", "done"}
    /\ TotalLookups < MaxCalls
    /\ pc' = [pc EXCEPT ![p] = "fast"]
    /\ mod' = [mod EXCEPT ![p] = m]
    /\ cancelled' = [cancelled EXCEPT ![p] = FALSE]
    /\ ret' = [ret EXCEPT ![p] = NoRet]
    /\ lookups' = [lookups EXCEPT ![m] = @ + 1]
    /\ UNCHANGED <<storeVars, countVars, flight, id, hs, joined, faults>>
    /\ UNCHANGED auxVars

\* the caller's context is cancelled while its Lookup is running
Cancel(p) ==
    /\ pc[p] \notin {"idle", "done"}
    /\ ~cancelled[p]
    /\ faults < MaxFaults
    /\ cancelled' = [cancelled EXCEPT ![p] = TRUE]
    /\ faults' = faults + 1
    /\ UNCHANGED <<storeVars, countVars, flight, pc, mod, id, hs, joined, ret, lookups>>
    /\ UNCHANGED auxVars

\* Lookup fast path: store.RecordID
FastPath(p) ==
    /\ pc[p] = "fast"
    /\ \/ /\ FastPathHit(mod[p])
          /\ pc' = [pc EXCEPT ![p] = "done"]
          /\ ret' = [ret EXCEPT ![p] = Ok(RecordID(mod[p]))]
          /\ UNCHANGED faults
       \/ /\ ~FastPathHit(mod[p])
          /\ pc' = [pc EXCEPT ![p] = "do"]
          /\ UNCHANGED <<ret, faults>>
       \/ /\ CanFail(p)
          /\ Charge(p)
          /\ pc' = [pc EXCEPT ![p] = "done"]
          /\ ret' = [ret EXCEPT ![p] = Err("ErrRecordID")]
    /\ UNCHANGED <<storeVars, countVars, flight, mod, cancelled, id, hs, joined, lookups>>
    /\ UNCHANGED auxVars

\* lookupGroup.Do(key, fn): join the in-flight call for the key, or become
\* the leader of a new one
Do(p) ==
    /\ pc[p] = "do"
    /\ IF InFlight(mod[p])
       THEN /\ joined' = [joined EXCEPT ![p] = flight[mod[p]]]
            /\ pc' = [pc EXCEPT ![p] = "wait"]
            /\ UNCHANGED flight
       ELSE /\ flight' = [flight EXCEPT ![mod[p]] = p]
            /\ pc' = [pc EXCEPT ![p] = "dbl"]
            /\ UNCHANGED joined
    /\ UNCHANGED <<storeVars, countVars, mod, cancelled, id, hs, ret, lookups, faults>>
    /\ UNCHANGED auxVars

\* fetchAndStoreRecord: the double-check store.RecordID
DoubleCheck(p) ==
    /\ pc[p] = "dbl"
    /\ \/ /\ DoubleCheckHit(mod[p])
          /\ Finish(p, Ok(RecordID(mod[p])))
          /\ UNCHANGED faults
       \/ /\ ~DoubleCheckHit(mod[p])
          /\ pc' = [pc EXCEPT ![p] = "gomod"]
          /\ UNCHANGED <<flight, ret, joined, id, hs, faults>>
       \/ /\ CanFail(p)
          /\ Charge(p)
          /\ Finish(p, Err("ErrRecordID"))
    /\ UNCHANGED <<storeVars, countVars, mod, cancelled, lookups>>
    /\ UNCHANGED auxVars

\* fetchAndStoreRecord: s.proxy.GoMod; the request fails when the context is
\* cancelled
FetchGoMod(p) ==
    /\ pc[p] = "gomod"
    /\ gomodFetches' = [gomodFetches EXCEPT ![mod[p]] = @ + 1]
    /\ \/ /\ ~cancelled[p]
          /\ pc' = [pc EXCEPT ![p] = "zip"]
          /\ UNCHANGED <<flight, ret, joined, id, hs, faults>>
       \/ /\ CanFail(p)
          /\ Charge(p)
          /\ Finish(p, Err("ErrGoMod"))
    /\ UNCHANGED <<storeVars, zipFetches, addCalls, mod, cancelled, lookups>>
    /\ UNCHANGED auxVars

\* fetchAndStoreRecord: s.proxy.Zip
FetchZip(p) ==
    /\ pc[p] = "zip"
    /\ zipFetches' = [zipFetches EXCEPT ![mod[p]] = @ + 1]
    /\ \/ /\ ~cancelled[p]
          /\ pc' = [pc EXCEPT ![p] = "add"]
          /\ UNCHANGED <<flight, ret, joined, id, hs, faults>>
       \/ /\ CanFail(p)
          /\ Charge(p)
          /\ Finish(p, Err("ErrZip"))
    /\ UNCHANGED <<storeVars, gomodFetches, addCalls, mod, cancelled, lookups>>
    /\ UNCHANGED auxVars

\* fetchAndStoreRecord: s.store.AddRecord; the store assigns the next
\* sequential id
StoreAddRecord(p) ==
    /\ pc[p] = "add"
    /\ addCalls' = [addCalls EXCEPT ![mod[p]] = @ + 1]
    /\ \/ /\ records' = Append(records,
                [mod |-> mod[p], data |-> RecordData(mod[p], Zip(mod[p]), GoMod(mod[p]))])
          /\ id' = [id EXCEPT ![p] = RecIdAt(Len(records) + 1)]
          /\ pc' = [pc EXCEPT ![p] = "hash"]
          /\ UNCHANGED <<flight, ret, joined, hs, faults>>
       \/ /\ CanFail(p)
          /\ Charge(p)
          /\ Finish(p, Err("ErrAddRecord"))
          /\ UNCHANGED records
    /\ UNCHANGED <<hashes, treeSize, gomodFetches, zipFetches, mod, cancelled, lookups>>
    /\ UNCHANGED auxVars

\* tree.AddRecord: tlog.StoredHashes(id, data, hr) reads the stored hashes of
\* the adjacent subtrees and computes the hashes to store
TreeStoredHashes(p) ==
    /\ pc[p] = "hash"
    /\ \/ /\ hs' = [hs EXCEPT ![p] = StoredHashes(id[p], RecordData(mod[p], Zip(mod[p]), GoMod(mod[p])))]
          /\ pc' = [pc EXCEPT ![p] = "write"]
          /\ UNCHANGED <<flight, ret, joined, id, faults>>
       \/ /\ CanFail(p)
          /\ Charge(p)
          /\ Finish(p, Err("ErrStoredHashes"))
    /\ UNCHANGED <<storeVars, countVars, mod, cancelled, lookups>>
    /\ UNCHANGED auxVars

\* tree.AddRecord: store.WriteHashes(ctx, indexes, hashes)
TreeWriteHashes(p) ==
    /\ pc[p] = "write"
    /\ \/ /\ LET indexes == storedHashIndexes(id[p], Len(hs[p]))
                 written == {indexes[i] : i \in 1..Len(hs[p])}
             IN hashes' = [x \in DOMAIN hashes \cup written |->
                            IF x \in written
                            THEN hs[p][CHOOSE i \in 1..Len(hs[p]) : indexes[i] = x]
                            ELSE hashes[x]]
          /\ pc' = [pc EXCEPT ![p] = "size"]
          /\ UNCHANGED <<flight, ret, joined, id, hs, faults>>
       \/ /\ CanFail(p)
          /\ Charge(p)
          /\ Finish(p, Err("ErrWriteHashes"))
          /\ UNCHANGED hashes
    /\ UNCHANGED <<records, treeSize, countVars, mod, cancelled, lookups>>
    /\ UNCHANGED auxVars

\* tree.AddRecord: store.SetTreeSize(ctx, id+1); on success
\* fetchAndStoreRecord returns id
TreeSetTreeSize(p) ==
    /\ pc[p] = "size"
    /\ \/ /\ treeSize' = NewTreeSize(id[p])
          /\ Finish(p, Ok(id[p]))
          /\ UNCHANGED faults
       \/ /\ CanFail(p)
          /\ Charge(p)
          /\ Finish(p, Err("ErrSetTreeSize"))
          /\ UNCHANGED treeSize
    /\ UNCHANGED <<records, hashes, countVars, mod, cancelled, lookups>>
    /\ UNCHANGED auxVars

\* a duplicate caller of lookupGroup.Do returns the leader's result
FollowerReturn(p) ==
    /\ pc[p] = "woken"
    /\ pc' = [pc EXCEPT ![p] = "done"]
    /\ UNCHANGED <<storeVars, countVars, flight, mod, cancelled, id, hs, joined, ret,
                   lookups, faults>>
    /\ UNCHANGED auxVars

Next ==
    \/ \E p \in Callers, m \in Mods : Lookup(p, m)
    \/ \E p \in Callers : Cancel(p)
    \/ \E p \in Callers : FastPath(p)
    \/ \E p \in Callers : Do(p)
    \/ \E p \in Callers : DoubleCheck(p)
    \/ \E p \in Callers : FetchGoMod(p)
    \/ \E p \in Callers : FetchZip(p)
    \/ \E p \in Callers : StoreAddRecord(p)
    \/ \E p \in Callers : TreeStoredHashes(p)
    \/ \E p \in Callers : TreeWriteHashes(p)
    \/ \E p \in Callers : TreeSetTreeSize(p)
    \/ \E p \in Callers : FollowerReturn(p)

Spec == Init /\ [][Next]_vars

\* ---- Signed ----

RECURSIVE MaxPow2(_)
\* tlog maxpow2(n): the largest power of 2 smaller than n (n >= 2)
MaxPow2(n) == IF n <= 2 THEN 1 ELSE 2 * MaxPow2((n + 1) \div 2)

RECURSIVE Log2(_)
\* l with k = 1 << l
Log2(k) == IF k <= 1 THEN 0 ELSE 1 + Log2(k \div 2)

RECURSIVE subTreeIndex(_, _)
\* tlog subTreeIndex(lo, hi, nil): the stored hashes of the maximal complete
\* subtrees that cover the leaves [lo, hi)
subTreeIndex(lo, hi) ==
    IF lo >= hi THEN <<>>
    ELSE LET k == MaxPow2(hi - lo + 1)
         IN <<StoredHashIndex(Log2(k), Shr(lo, Log2(k)))>> \o subTreeIndex(lo + k, hi)

RECURSIVE subTreeHash(_)
\* tlog subTreeHash: h = hashes[last]; h = NodeHash(hashes[i], h) going left
subTreeHash(hashSeq) ==
    IF Len(hashSeq) = 1 THEN hashSeq[1]
    ELSE NodeHash(hashSeq[1], subTreeHash(Tail(hashSeq)))

\* tlog.TreeHash(size, hr) for size > 0: one ReadHashes call, then the fold
TreeHashOf(size) ==
    LET indexes == subTreeIndex(0, size)
    IN subTreeHash([i \in 1..Len(indexes) |-> ReadHash(indexes[i])])

\* a Signed call starts
SignedStart ==
    /\ signer.pc = "idle"
    /\ signer.calls < MaxSigned
    /\ signer' = [signer EXCEPT !.pc = "size", !.calls = @ + 1]
    /\ UNCHANGED <<storeVars, lookupVars, faults, storeKind, heads, nt, dbc>>

\* Signed: size, err := s.store.TreeSize(ctx)
SignedTreeSize ==
    /\ signer.pc = "size"
    /\ \/ /\ signer' = [signer EXCEPT !.pc = "thsize", !.size = treeSize]
          /\ UNCHANGED faults
       \/ /\ faults < MaxFaults
          /\ faults' = faults + 1
          /\ signer' = [signer EXCEPT !.pc = "idle"]
    /\ UNCHANGED <<storeVars, lookupVars, storeKind, heads, nt, dbc>>

\* mutation of EmptyTreeHash: the empty tree gets the hash of an empty record
EmptyTreeHashOfRecord == RecordHash(<<>>)

\* tree.TreeHash on size 0: return tlog.Hash{}, nil
EmptyTreeHash == ZeroHash

\* tree.TreeHash: size, err := store.TreeSize(ctx); an empty tree has the
\* zero hash and Signed signs (size read by Signed, zero hash)
TreeHashTreeSize ==
    /\ signer.pc = "thsize"
    /\ \/ /\ treeSize = 0
          /\ heads' = heads \cup {[N |-> signer.size, root |-> EmptyTreeHash]}
          /\ signer' = [signer EXCEPT !.pc = "idle", !.size = 0]
          /\ UNCHANGED faults
       \/ /\ treeSize # 0
          /\ signer' = [signer EXCEPT !.pc = "read", !.thSize = treeSize]
          /\ UNCHANGED <<heads, faults>>
       \/ /\ faults < MaxFaults
          /\ faults' = faults + 1
          /\ signer' = [signer EXCEPT !.pc = "idle", !.size = 0]
          /\ UNCHANGED heads
    /\ UNCHANGED <<storeVars, lookupVars, storeKind, nt, dbc>>

\* tree.TreeHash: tlog.TreeHash(size, hr) reads the stored hashes; Signed
\* signs tlog.Tree{N: size read by Signed, Hash: hash}
TreeHashRead ==
    /\ signer.pc = "read"
    /\ \/ /\ heads' = heads \cup {[N |-> signer.size, root |-> TreeHashOf(signer.thSize)]}
          /\ UNCHANGED faults
       \/ /\ faults < MaxFaults
          /\ faults' = faults + 1
          /\ UNCHANGED heads
    /\ signer' = [signer EXCEPT !.pc = "idle", !.size = 0, !.thSize = 0]
    /\ UNCHANGED <<storeVars, lookupVars, storeKind, nt, dbc>>

NextSigned ==
    \/ Next
    \/ SignedStart
    \/ SignedTreeSize
    \/ TreeHashTreeSize
    \/ TreeHashRead

\* Lookups running concurrently with Signed calls
SpecSigned == Init /\ [][NextSigned]_vars

\* ---- properties ----

\* no Lookup is in progress
Quiescent == \A p \in Callers : pc[p] \in {"idle", "done"}

\* callers whose Lookup has returned
Returned == {p \in Callers : pc[p] = "done"}

\* every Lookup started so far has returned, and every caller made at most one
AllReturnedOnce == Quiescent /\ Returned # {} /\ TotalLookups = Cardinality(Returned)

\* callers inside the append section: store.AddRecord has returned an id and
\* SetTreeSize has not returned yet
InAppend == {p \in Callers : pc[p] \in {"hash", "write", "size"}}

\* the storage indexes tree.AddRecord writes for record k
IndexesOf(k) ==
    {StoredHashIndex(j, Shr(k, j)) : j \in 0..TrailingOnes(k)}

\* record k is committed: its hashes are written and the tree size is past it
Durable(k) == treeSize > k /\ \A x \in IndexesOf(k) : x \in DOMAIN hashes

\* C1: appends of distinct modules are serialized - at most one Lookup is
\* inside the append section (after store.AddRecord, before SetTreeSize
\* has returned) in every reachable state.
C1_SerializedAppends == Cardinality(InAppend) <= 1

\* C2: after k concurrent Lookups of k distinct absent modules have all
\* returned successfully on an empty store, the tree size is k, the records
\* have the dense ids 0..k-1 and the k returned ids are pairwise distinct.
C2_DistinctModules ==
    ( /\ AllReturnedOnce
      /\ \A p \in Returned : ret[p].err = "nil"
      /\ \A p, q \in Returned : p # q => mod[p] # mod[q] )
    => LET k == Cardinality(Returned)
       IN /\ treeSize = k
          /\ Len(records) = k
          /\ {r.id : r \in Records(0, k)} = 0..(k - 1)
          /\ \A p, q \in Returned : p # q => ret[p].id # ret[q].id

\* C3: whenever the coordinator invokes tree.AddRecord(id, data), id equals
\* the store's tree size at that moment.
C3_IdEqualsTreeSize ==
    [][\A p \in Callers : (pc[p] = "hash" /\ pc'[p] # "hash") => id[p] = treeSize]_vars

\* C4: the stored tree size never decreases, and every change of the tree
\* size is an increase by exactly 1.
C4_TreeSizeStepsByOne ==
    [][treeSize' = treeSize \/ treeSize' = treeSize + 1]_vars

\* only module m has been looked up so far
OnlyModule(m) == \A m2 \in Mods : m2 # m => lookups[m2] = 0

\* C5: for any number of concurrent Lookups of the same initially absent
\* module (no store or upstream failure): at most one go.mod fetch, one zip
\* fetch and one store.AddRecord are ever issued, all callers that returned
\* got the same id without error, and once all have returned exactly one of
\* each was issued and the tree size is 1.
C5_SingleflightDedup ==
    \A m \in Mods :
        (faults = 0 /\ OnlyModule(m)) =>
            /\ gomodFetches[m] <= 1
            /\ zipFetches[m] <= 1
            /\ addCalls[m] <= 1
            /\ \A p \in Callers : pc[p] \in {"done", "woken"} => ret[p].err = "nil"
            /\ \A p, q \in Callers :
                  (pc[p] \in {"done", "woken"} /\ pc[q] \in {"done", "woken"})
                      => ret[p].id = ret[q].id
            /\ (Quiescent /\ lookups[m] >= 1) =>
                  /\ gomodFetches[m] = 1
                  /\ zipFetches[m] = 1
                  /\ addCalls[m] = 1
                  /\ treeSize = 1

\* C5 witness: a duplicate caller was handed the leader's id after the
\* leader's single fetch and append
C5_Witness ==
    \E p, q \in Callers :
        /\ p # q
        /\ faults = 0
        /\ OnlyModule(mod[p])
        /\ pc[p] = "done"
        /\ pc[q] = "woken"
        /\ ret[p] = Ok(0)
        /\ ret[q] = Ok(0)
        /\ gomodFetches[mod[p]] = 1
        /\ zipFetches[mod[p]] = 1
        /\ addCalls[mod[p]] = 1
        /\ treeSize = 1

\* each module has at most one record
NoDuplicateRecords == \A m \in Mods : Cardinality(IdsOf(m)) <= 1

\* C6 (as stated): each (path, version) appears in at most one record, and
\* store.AddRecord is never called twice for the same (path, version).
C6_AddRecordCalledOnce ==
    NoDuplicateRecords /\ \A m \in Mods : addCalls[m] <= 1

\* C6 (amended): each (path, version) appears in at most one record, and
\* store.AddRecord is never called for a (path, version) that already has a
\* record; it may be called again after an earlier call for the key failed.
C6_AtMostOneRecord ==
    /\ NoDuplicateRecords
    /\ \A p \in Callers : pc[p] = "add" => ~HasRecord(mod[p])

\* C6 witness: AddRecord was called twice for a module (the first call
\* failed) and the module has exactly one record
C6_Witness ==
    \E m \in Mods : addCalls[m] = 2 /\ Cardinality(IdsOf(m)) = 1

\* C7: a failed Lookup leaves the log unchanged - when every Lookup made so
\* far has returned an error, the records, the stored hashes and the tree
\* size are those of the initial store.
C7_FailedLookupLeavesLog ==
    (AllReturnedOnce /\ \A p \in Returned : ret[p].err # "nil")
        => (records = <<>> /\ hashes = <<>> /\ treeSize = 0)

\* C8: a successful Lookup is durable before the caller receives its id -
\* whenever a Lookup (fast path, leader or follower) returns id without
\* error, the hashes of record id are written and the tree size exceeds id.
C8_DurableBeforeReturn ==
    [][\A p \in Callers :
          (pc[p] # "done" /\ pc'[p] = "done" /\ ret'[p].err = "nil")
              => /\ treeSize' > ret'[p].id
                 /\ \A x \in IndexesOf(ret'[p].id) : x \in DOMAIN hashes']_vars

\* C9: no record is visible to readers before it is committed - ReadRecords
\* returns no record whose id is at or past the tree size or whose hashes
\* have not been written.
C9_NoUncommittedVisible ==
    \A rid \in 0..Len(records) : \A n \in 0..(Len(records) + 1) :
        \A r \in ReadRecords(rid, n) : Durable(r.id)

\* C10: with tree size N, for every k < N there is exactly one record with
\* id k and the stored hash at (level 0, n = k) is the leaf hash of its data.
C10_LeafHashes ==
    \A k \in 0..(treeSize - 1) :
        /\ Cardinality(Records(k, 1)) = 1
        /\ \A r \in Records(k, 1) :
              ReadHash(StoredHashIndex(0, k)) = RecordHash(r.data)

\* C11: whenever no Lookup is in progress, the tree size equals the number
\* of records ever written to the store.
C11_SizeIsRecordCount == Quiescent => treeSize = Len(records)

RECURSIVE LargestPow2Below(_)
\* the largest power of two strictly below n (n >= 2)
LargestPow2Below(n) == IF n <= 2 THEN 1 ELSE 2 * LargestPow2Below((n + 1) \div 2)

RECURSIVE MerkleRoot(_)
\* the Merkle tree hash (RFC 6962) of a sequence of leaf hashes; the empty
\* tree has the zero hash
MerkleRoot(leaves) ==
    IF Len(leaves) = 0 THEN ZeroHash
    ELSE IF Len(leaves) = 1 THEN leaves[1]
    ELSE LET k == LargestPow2Below(Len(leaves))
         IN NodeHash(MerkleRoot(SubSeq(leaves, 1, k)),
                     MerkleRoot(SubSeq(leaves, k + 1, Len(leaves))))

RECURSIVE SubtreeLeaves(_)
\* the leaf hashes a subtree hash commits to, left to right
SubtreeLeaves(h) ==
    IF Len(h) = 3 THEN SubtreeLeaves(h[2]) \o SubtreeLeaves(h[3]) ELSE <<h>>

\* the leaf hashes a root hash commits to; the zero root is the empty tree
LeavesOf(root) == IF root = ZeroHash THEN <<>> ELSE SubtreeLeaves(root)

\* C12: append-only consistency of signed heads - for any two distinct tree
\* heads produced by Signed with N1 <= N2, root1 is the Merkle root of the
\* first N1 leaves of the tree that root2 commits to.
C12_HeadsConsistent ==
    \A h1, h2 \in heads :
        (h1 # h2 /\ h1.N <= h2.N) =>
            /\ Len(LeavesOf(h2.root)) >= h1.N
            /\ h1.root = MerkleRoot(SubSeq(LeavesOf(h2.root), 1, h1.N))

\* C13: every tree head (N, root) returned by Signed is internally
\* consistent - root is the Merkle root over exactly the records with
\* id < N.
C13_HeadCommitsRecords ==
    \A h \in heads :
        /\ Len(records) >= h.N
        /\ h.root = MerkleRoot([i \in 1..h.N |-> RecordHash(records[i].data)])

\* C14: stored hashes are write-once: once a non-zero hash is stored at an
\* index, no later write changes it, so every later read returns that hash.
C14_WriteOnce ==
    [][\A x \in DOMAIN hashes :
          hashes[x] # ZeroHash => (x \in DOMAIN hashes' /\ hashes'[x] = hashes[x])]_vars

\* two records' hashes are stored: the second write came after the first
C14_Witness == {0, 1, 2} \subseteq DOMAIN hashes

\* ---- the example SQLite store (dbStore) ----

\* the store implements TxStore (dbStore.WithTx)
HasWithTx == storeKind = "sqlite"

\* the state after construction with a fresh dbStore plugged in
InitDB ==
    /\ records = <<>>
    /\ hashes = <<>>
    /\ treeSize = 0
    /\ flight = [m \in Mods |-> 0]
    /\ pc = [p \in Callers |-> "idle"]
    /\ mod = [p \in Callers |-> 1]
    /\ cancelled = [p \in Callers |-> FALSE]
    /\ id = [p \in Callers |-> 0]
    /\ hs = [p \in Callers |-> <<>>]
    /\ joined = [p \in Callers |-> 0]
    /\ ret = [p \in Callers |-> NoRet]
    /\ lookups = [m \in Mods |-> 0]
    /\ gomodFetches = [m \in Mods |-> 0]
    /\ zipFetches = [m \in Mods |-> 0]
    /\ addCalls = [m \in Mods |-> 0]
    /\ faults = 0
    /\ storeKind = "sqlite"
    /\ signer = SignerIdle
    /\ heads = {}
    /\ nt = NoteIdle
    /\ dbc = DbIdle

SpecDB == InitDB /\ [][Next]_vars

\* C15: the store assigns ids from 0, each equal to the tree size before the
\* append, so the id a Lookup returns is the position of the module's record
\* in Records(0, infinity); stated for dbStore.
C15_IdIsPosition ==
    \A p \in Callers :
        (pc[p] = "done" /\ ret[p].err = "nil") =>
            /\ ret[p].id < Len(records)
            /\ records[ret[p].id + 1].mod = mod[p]

\* C16: with a store that implements WithTx, a Lookup that fails in
\* WriteHashes or SetTreeSize leaves no record of its module in the store.
C16_TxNoOrphan ==
    \A p \in Callers :
        (HasWithTx /\ pc[p] = "done"
            /\ ret[p].err \in {"ErrWriteHashes", "ErrSetTreeSize"}) =>
                ~HasRecord(mod[p])

\* C17: a Lookup of a module that already has a record leaves the fast path
\* by returning (the record's original id, unless the RecordID call itself
\* fails), with no upstream fetch, no AddRecord call and no store write.
C17_SecondLookupFastPath ==
    [][\A p \in Callers :
          (pc[p] = "fast" /\ HasRecord(mod[p]) /\ pc'[p] # "fast") =>
              /\ pc'[p] = "done"
              /\ ret'[p] = Ok(RecordID(mod[p])) \/ ret'[p].err = "ErrRecordID"
              /\ UNCHANGED <<storeVars, countVars>>]_vars

\* one caller looked the same module up twice in a row: the second call
\* returned the id of the record the first call created, with one fetch
C17_Witness ==
    \E p \in Callers :
        /\ pc[p] = "done"
        /\ \A q \in Callers \ {p} : pc[q] = "idle"
        /\ faults = 0
        /\ lookups[mod[p]] = 2
        /\ HasRecord(mod[p])
        /\ ret[p] = Ok(RecordID(mod[p]))
        /\ gomodFetches[mod[p]] = 1
        /\ zipFetches[mod[p]] = 1
        /\ addCalls[mod[p]] = 1

\* C18: when the leader of a deduplicated Lookup fails, every caller that
\* joined the flight is handed the leader's error, and no record has been
\* added for the key.
C18_FollowersShareFailure ==
    [][\A p, q \in Callers :
          (pc[q] = "wait" /\ joined[q] = p /\ pc'[q] = "woken" /\ ret'[q].err # "nil") =>
              /\ pc'[p] = "done"
              /\ ret'[q] = ret'[p]
              /\ ~(HasRecord(mod[q]))']_vars

\* ---- sequential use: one Lookup at a time ----

\* a caller invokes Lookup only when no other Lookup is running
LookupSeq(p, m) == Quiescent /\ Lookup(p, m)

\* with one Lookup at a time no caller ever waits on another's flight
NextSeq ==
    \/ \E p \in Callers, m \in Mods : LookupSeq(p, m)
    \/ \E p \in Callers : Cancel(p)
    \/ \E p \in Callers : FastPath(p)
    \/ \E p \in Callers : Do(p)
    \/ \E p \in Callers : DoubleCheck(p)
    \/ \E p \in Callers : FetchGoMod(p)
    \/ \E p \in Callers : FetchZip(p)
    \/ \E p \in Callers : StoreAddRecord(p)
    \/ \E p \in Callers : TreeStoredHashes(p)
    \/ \E p \in Callers : TreeWriteHashes(p)
    \/ \E p \in Callers : TreeSetTreeSize(p)

SpecSeq == Init /\ [][NextSeq]_vars

\* C19: after m sequential Lookups of m distinct modules on an empty store,
\* none of which failed, the tree size is m.
C19_SizeAfterAppends ==
    (Quiescent /\ faults = 0 /\ \A m \in Mods : lookups[m] <= 1) =>
        treeSize = TotalLookups

\* as many distinct modules as the call bound allows were appended in turn
C19_Witness ==
    /\ Quiescent
    /\ faults = 0
    /\ \A m \in Mods : lookups[m] <= 1
    /\ TotalLookups = MaxCalls
    /\ treeSize = MaxCalls
    /\ Len(records) = MaxCalls

\* ---- signer package: SignTreeHead / VerifyTreeHead ----

\* largest tree size signed in a round
MaxTreeN == 11
\* number of key pairs
NumKeys == 2
\* bytes in a hash of a round (tlog.HashSize, scaled down)
HashLen == 2
\* largest byte value in a hash of a round
MaxByte == 1

Keys == 1..NumKeys

\* the hashes a round can sign
NoteHashes == [1..HashLen -> 0..MaxByte]

\* tlog.Tree{}: the zero tree returned with an error
ZeroTree == [N |-> 0, Hash |-> [i \in 1..HashLen |-> 0]]

\* the first line of a formatted tree
TreePrefix == "go.sum database tree"

\* character codes: '0', '-', '+' and the first letter of the base64 alphabet
CharZero == 48
CharMinus == 45
CharPlus == 43
CharA == 65

\* mutation of FormatInt: only the last digit is written
FormatIntLastDigit(n) == <<CharZero + (n % 10)>>

RECURSIVE FormatInt(_)
\* strconv.FormatInt(n, 10) for n >= 0: the decimal digits of n
FormatInt(n) ==
    IF n < 10 THEN <<CharZero + n>>
    ELSE FormatInt(n \div 10) \o <<CharZero + (n % 10)>>

IsDigit(c) == CharZero <= c /\ c <= CharZero + 9

RECURSIVE DigitsValue(_)
DigitsValue(s) ==
    IF Len(s) = 0 THEN 0
    ELSE 10 * DigitsValue(SubSeq(s, 1, Len(s) - 1)) + (s[Len(s)] - CharZero)

\* strconv.ParseInt(s, 10, 64): an optional sign, then one or more digits
ParseInt(s) ==
    LET signed == Len(s) > 0 /\ s[1] \in {CharMinus, CharPlus}
        digits == IF signed THEN SubSeq(s, 2, Len(s)) ELSE s
    IN IF Len(digits) = 0 \/ \E i \in 1..Len(digits) : ~IsDigit(digits[i])
       THEN [ok |-> FALSE, n |-> 0]
       ELSE [ok |-> TRUE,
             n |-> IF signed /\ s[1] = CharMinus
                   THEN 0 - DigitsValue(digits) ELSE DigitsValue(digits)]

\* base64 encoding of a hash, one character per byte
EncodeHash(h) == [i \in 1..Len(h) |-> CharA + h[i]]

\* base64 decoding: fails on a character outside the alphabet
DecodeHash(s) ==
    IF \E i \in 1..Len(s) : s[i] < CharA \/ s[i] > CharA + MaxByte
    THEN [ok |-> FALSE, h |-> <<>>]
    ELSE [ok |-> TRUE, h |-> [i \in 1..Len(s) |-> s[i] - CharA]]

\* tlog.FormatTree: the prefix line, the size in decimal, the hash in base64
FormatTree(tree) == <<TreePrefix, FormatInt(tree.N), EncodeHash(tree.Hash)>>

\* tlog.ParseTree: needs the prefix and three lines, a size >= 0 and a hash
\* of HashSize bytes; later lines are ignored
ParseTree(text) ==
    IF Len(text) < 3 \/ text[1] # TreePrefix THEN [ok |-> FALSE, tree |-> ZeroTree]
    ELSE LET n == ParseInt(text[2])
             h == DecodeHash(text[3])
         IN IF ~n.ok \/ n.n < 0 \/ ~h.ok \/ Len(h.h) # HashLen
            THEN [ok |-> FALSE, tree |-> ZeroTree]
            ELSE [ok |-> TRUE, tree |-> [N |-> n.n, Hash |-> h.h]]

\* the Ed25519 signature of a text under the private key of pair k
Ed25519Sign(k, text) == <<"sig", k, text>>

\* note.Sign: the text followed by one signature line, which names the key
\* the signature is written in base64, whose last character carries unused
\* trailing bits (pad); the encoder writes them as 0
SignNote(text, k) ==
    [form |-> "note", text |-> text,
     sigs |-> <<[key |-> k, sig |-> Ed25519Sign(k, text), pad |-> 0]>>]

\* bytes that do not have the layout of a signed note
GarbageNote == [form |-> "garbage", text |-> <<>>, sigs |-> <<>>]

\* note.Open with one verifier: a signature line of another key is skipped,
\* a line of the verifier's key must verify, and at least one line must
\* verify; bytes without the layout of a note are malformed; the base64
\* decoder (base64.StdEncoding, not strict) ignores the trailing bits
OpenNote(k, msg) ==
    LET known == {i \in 1..Len(msg.sigs) : msg.sigs[i].key = k}
    IN IF msg.form # "note" THEN [err |-> "malformed note", text |-> <<>>]
       ELSE IF \E i \in known : msg.sigs[i].sig # Ed25519Sign(k, msg.text)
       THEN [err |-> "invalid signature", text |-> <<>>]
       ELSE IF known = {} THEN [err |-> "unverified note", text |-> <<>>]
       ELSE [err |-> "nil", text |-> msg.text]

\* signer.SignTreeHead
SignTreeHead(k, tree) == SignNote(FormatTree(tree), k)

\* signer.VerifyTreeHead
VerifyTreeHead(k, signed) ==
    LET n == OpenNote(k, signed)
    IN IF n.err # "nil" THEN [err |-> "ErrVerifyFailed", tree |-> ZeroTree]
       ELSE LET t == ParseTree(n.text)
            IN IF ~t.ok THEN [err |-> "ErrInvalidNote", tree |-> ZeroTree]
               ELSE [err |-> "nil", tree |-> t.tree]

\* a round starts with a tree head, a signer key and a verifier key
InitNote ==
    /\ records = <<>>
    /\ hashes = <<>>
    /\ treeSize = 0
    /\ flight = [m \in Mods |-> 0]
    /\ pc = [p \in Callers |-> "idle"]
    /\ mod = [p \in Callers |-> 1]
    /\ cancelled = [p \in Callers |-> FALSE]
    /\ id = [p \in Callers |-> 0]
    /\ hs = [p \in Callers |-> <<>>]
    /\ joined = [p \in Callers |-> 0]
    /\ ret = [p \in Callers |-> NoRet]
    /\ lookups = [m \in Mods |-> 0]
    /\ gomodFetches = [m \in Mods |-> 0]
    /\ zipFetches = [m \in Mods |-> 0]
    /\ addCalls = [m \in Mods |-> 0]
    /\ faults = 0
    /\ storeKind = "seq0"
    /\ signer = SignerIdle
    /\ heads = {}
    /\ \E n \in 0..MaxTreeN, h \in NoteHashes, sk \in Keys, vk \in Keys :
          nt = [phase |-> "start", input |-> "none", tree |-> [N |-> n, Hash |-> h],
                skey |-> sk, vkey |-> vk,
                signed |-> SignNote(<<>>, sk), out |-> [err |-> "none", tree |-> ZeroTree]]
    /\ dbc = DbIdle

\* the round calls SignTreeHead(signer, tree)
SignStep ==
    /\ nt.phase = "start"
    /\ nt' = [nt EXCEPT !.phase = "signed", !.input = "signed",
                        !.signed = SignTreeHead(nt.skey, nt.tree)]
    /\ UNCHANGED <<storeVars, lookupVars, faults, storeKind, signer, heads, dbc>>

\* the characters an altered byte of the text can become
TamperChars == {CharZero, CharZero + 1, CharMinus, CharA}

\* the signed notes that differ from msg in one byte: a character of the size
\* or hash line, the prefix line, the signature, the key it names, the
\* trailing bits of its base64, or a byte of the note's layout
Tampered(msg) ==
    UNION {{[msg EXCEPT !.text[l][i] = c] : c \in TamperChars \ {msg.text[l][i]}} :
              <<l, i>> \in {<<l2, i2>> \in {2, 3} \X (1..(MaxTreeN + HashLen)) :
                               i2 <= Len(msg.text[l2])}}
    \cup {[msg EXCEPT !.text[1] = "go.sum database tred"]}
    \cup {[msg EXCEPT !.sigs[1].sig = <<"sig", 0, msg.text>>]}
    \cup {[msg EXCEPT !.sigs[1].key = k] : k \in Keys \ {msg.sigs[1].key}}
    \cup {[msg EXCEPT !.sigs[1].pad = 1]}
    \cup {[msg EXCEPT !.form = "garbage"]}

\* one byte of the signed note is altered before it is verified
TamperStep ==
    /\ nt.phase = "signed"
    /\ nt.input = "signed"
    /\ \E msg \in Tampered(nt.signed) :
          nt' = [nt EXCEPT !.input = "tampered", !.signed = msg]
    /\ UNCHANGED <<storeVars, lookupVars, faults, storeKind, signer, heads, dbc>>

\* the round verifies bytes that never were a signed note
GarbageStep ==
    /\ nt.phase = "start"
    /\ nt' = [nt EXCEPT !.phase = "signed", !.input = "garbage", !.signed = GarbageNote]
    /\ UNCHANGED <<storeVars, lookupVars, faults, storeKind, signer, heads, dbc>>

\* the round calls VerifyTreeHead(verifier, signed)
VerifyStep ==
    /\ nt.phase = "signed"
    /\ nt' = [nt EXCEPT !.phase = "verified", !.out = VerifyTreeHead(nt.vkey, nt.signed)]
    /\ UNCHANGED <<storeVars, lookupVars, faults, storeKind, signer, heads, dbc>>

NextNote == SignStep \/ TamperStep \/ GarbageStep \/ VerifyStep

SpecNote == InitNote /\ [][NextNote]_vars

\* C20: when the verifier key matches the signer key, verifying the signed
\* tree head returns the tree head that was signed, without error.
C20_SignVerifyRoundTrip ==
    (nt.phase = "verified" /\ nt.input = "signed" /\ nt.vkey = nt.skey) =>
        nt.out = [err |-> "nil", tree |-> nt.tree]

\* a round with matching keys verified a head whose size has two digits
C20_Witness ==
    /\ nt.phase = "verified"
    /\ nt.input = "signed"
    /\ nt.vkey = nt.skey
    /\ nt.tree.N >= 10
    /\ nt.out = [err |-> "nil", tree |-> nt.tree]

\* C21: when the signed note was altered in any byte after signing, or was
\* signed by another key than the verifier's, VerifyTreeHead returns
\* ErrVerifyFailed and no tree.
C21_TamperRejected ==
    (nt.phase = "verified"
        /\ (nt.input = "tampered" \/ (nt.input = "signed" /\ nt.vkey # nt.skey))) =>
            nt.out = [err |-> "ErrVerifyFailed", tree |-> ZeroTree]

\* C22: bytes that are not a structurally valid signed note yield
\* ErrInvalidNote, and ErrVerifyFailed is reported only for a note whose
\* signature does not validate.
C22_FailureKinds ==
    nt.phase = "verified" =>
        /\ nt.signed.form # "note" => nt.out.err = "ErrInvalidNote"
        /\ nt.out.err = "ErrVerifyFailed" => nt.signed.form = "note"

\* the one client of the single-client runs
Client == CHOOSE p \in Callers : \A q \in Callers : p <= q

\* Signed calls running while one client makes Lookups, one after the other
NextSignedOne ==
    \/ \E m \in Mods : LookupSeq(Client, m)
    \/ Cancel(Client)
    \/ FastPath(Client)
    \/ Do(Client)
    \/ DoubleCheck(Client)
    \/ FetchGoMod(Client)
    \/ FetchZip(Client)
    \/ StoreAddRecord(Client)
    \/ TreeStoredHashes(Client)
    \/ TreeWriteHashes(Client)
    \/ TreeSetTreeSize(Client)
    \/ SignedStart
    \/ SignedTreeSize
    \/ TreeHashTreeSize
    \/ TreeHashRead

SpecSignedOne == Init /\ [][NextSignedOne]_vars

\* C23: on a store whose tree size is 0, TreeHash returns the zero hash
\* without a read of stored hashes, and Signed signs (N = 0, zero hash), a
\* head whose signed note verifies under the matching key and parses back to
\* (N = 0, zero hash).
C23_EmptyTreeHead ==
    [][(signer.pc = "thsize" /\ treeSize = 0 /\ signer' # signer /\ faults' = faults) =>
          /\ signer'.pc = "idle"
          /\ UNCHANGED hashes
          /\ heads' = heads \cup {[N |-> 0, root |-> ZeroHash]}
          /\ \A k \in Keys :
                VerifyTreeHead(k, SignTreeHead(k, ZeroTree)) =
                    [err |-> "nil", tree |-> ZeroTree]]_vars

\* a Signed call on the empty store has signed the head (0, zero hash)
C23_Witness ==
    /\ treeSize = 0
    /\ Len(records) = 0
    /\ signer.pc = "idle"
    /\ signer.calls >= 1
    /\ heads = {[N |-> 0, root |-> ZeroHash]}

\* ---- tiles ----

\* tree.TileHeight
TileHeight == 8

\* tlog.HashSize: bytes in one hash
HashSize == 32

\* the level-0 tile of width w at offset 0
Tile0(w) == [H |-> TileHeight, L |-> 0, N |-> 0, W |-> w]

\* mutation of TileIndex: the hashes are read one level too high
TileIndexLevelUp(t, i) == StoredHashIndex(t.H * t.L + 1, t.N * Pow2(t.H) + i)

\* tlog.ReadTileData: the storage index of the i-th hash of tile t
TileIndex(t, i) == StoredHashIndex(t.H * t.L, t.N * Pow2(t.H) + i)

\* tree.ReadTile / tlog.ReadTileData: the hashes of the tile, in order, read
\* from the store in one ReadHashes call
ReadTile(t) == [i \in 1..t.W |-> ReadHash(TileIndex(t, i - 1))]

\* number of bytes ReadTile returns: the hashes are concatenated
ReadTileLen(t) == Len(ReadTile(t)) * HashSize

\* C24: after W records were appended in id order, the level-0 tile of
\* width W is W*32 bytes: the leaf hashes of records 0..W-1 in id order.
C24_TileIsLeafHashes ==
    (Quiescent /\ faults = 0 /\ treeSize = TotalLookups
        /\ \A m \in Mods : lookups[m] <= 1) =>
        \A w \in 1..treeSize :
            /\ ReadTileLen(Tile0(w)) = w * 32
            /\ ReadTile(Tile0(w)) = [i \in 1..w |-> RecordHash(records[i].data)]

\* as many records as the call bound allows were appended one after the
\* other and the tile of that width holds hashes
C24_Witness ==
    /\ Quiescent
    /\ faults = 0
    /\ \A m \in Mods : lookups[m] <= 1
    /\ treeSize = MaxCalls
    /\ TotalLookups = MaxCalls
    /\ \A i \in 1..MaxCalls : ReadTile(Tile0(MaxCalls))[i] # ZeroHash

\* C25: no Lookup returns ErrNotFound. A RecordID that finds no record, on
\* the fast path or on the double-check, makes the call go on towards the
\* fetch; a RecordID that fails otherwise ends the call with that error and
\* with no fetch and no store write.
C25_NotFoundNeverEscapes ==
    [][\A p \in Callers :
          /\ ret'[p].err # "ErrNotFound"
          /\ (pc[p] = "fast" /\ pc'[p] # "fast") =>
                \/ pc'[p] = "do" /\ ~HasRecord(mod[p]) /\ ret'[p] = ret[p]
                \/ pc'[p] = "done" /\ HasRecord(mod[p]) /\ ret'[p] = Ok(RecordID(mod[p]))
                \/ /\ pc'[p] = "done"
                   /\ ret'[p] = Err("ErrRecordID")
                   /\ UNCHANGED <<storeVars, countVars>>
          /\ (pc[p] = "dbl" /\ pc'[p] # "dbl") =>
                \/ pc'[p] = "gomod" /\ ~HasRecord(mod[p]) /\ ret'[p] = ret[p]
                \/ pc'[p] = "done" /\ HasRecord(mod[p]) /\ ret'[p] = Ok(RecordID(mod[p]))
                \/ /\ pc'[p] = "done"
                   /\ ret'[p] = Err("ErrRecordID")
                   /\ UNCHANGED <<storeVars, countVars>>]_vars

\* one caller was handed a RecordID failure before any fetch for its module,
\* another found no record and reached the fetch
C25_Witness ==
    \E p, q \in Callers :
        /\ pc[p] = "done"
        /\ ret[p] = Err("ErrRecordID")
        /\ mod[p] # mod[q]
        /\ gomodFetches[mod[p]] = 0
        /\ addCalls[mod[p]] = 0
        /\ pc[q] = "gomod"
        /\ ~HasRecord(mod[q])

\* ---- tree.AddRecord called directly ----

\* largest record id passed to tree.AddRecord
MaxRecId == 7

\* a client calls tree.AddRecord(ctx, store, k, data of m); the calls are
\* counted with the Lookup calls
TreeAddRecord(p, k, m) ==
    /\ pc[p] \in {"idle", "done"}
    /\ TotalLookups < MaxCalls
    /\ pc' = [pc EXCEPT ![p] = "hash"]
    /\ mod' = [mod EXCEPT ![p] = m]
    /\ id' = [id EXCEPT ![p] = k]
    /\ cancelled' = [cancelled EXCEPT ![p] = FALSE]
    /\ ret' = [ret EXCEPT ![p] = NoRet]
    /\ lookups' = [lookups EXCEPT ![m] = @ + 1]
    /\ UNCHANGED <<storeVars, countVars, flight, hs, joined, faults>>
    /\ UNCHANGED auxVars

\* one client calls tree.AddRecord with any ids, one call after the other
NextTree ==
    \/ \E k \in 0..MaxRecId, m \in Mods : TreeAddRecord(Client, k, m)
    \/ TreeStoredHashes(Client)
    \/ TreeWriteHashes(Client)
    \/ TreeSetTreeSize(Client)

SpecTree == Init /\ [][NextTree]_vars

\* the storage indexes the claim names for record k
C26_Indexes(k) == {StoredHashIndex(j, Shr(k, j)) : j \in 0..TrailingOnes(k)}

\* C26: tree.AddRecord for record k writes 1 + (trailing 1-bits of k)
\* hashes, at the indexes StoredHashIndex(j, k >> j), and at no other index.
C26_WritesExactIndexes ==
    [][\A p \in Callers :
          /\ (pc[p] = "write" /\ pc'[p] = "size") =>
                /\ Len(hs[p]) = 1 + TrailingOnes(id[p])
                /\ Cardinality(C26_Indexes(id[p])) = 1 + TrailingOnes(id[p])
                /\ DOMAIN hashes' = DOMAIN hashes \cup C26_Indexes(id[p])
                /\ \A j \in 0..TrailingOnes(id[p]) :
                      hashes'[StoredHashIndex(j, Shr(id[p], j))] = hs[p][j + 1]
                /\ \A x \in DOMAIN hashes \ C26_Indexes(id[p]) : hashes'[x] = hashes[x]
          /\ (pc[p] \in {"hash", "size"} \/ pc'[p] = "done") => UNCHANGED hashes]_vars

\* the hashes of record 3 (two trailing 1-bits) are stored: three hashes
C26_Witness ==
    /\ C26_Indexes(3) \subseteq DOMAIN hashes
    /\ Cardinality(C26_Indexes(3)) = 3
    /\ \E p \in Callers : pc[p] = "size" /\ id[p] = 3

\* C27: in tree.AddRecord the tree size is set last: SetTreeSize(id+1) is
\* reached only from a successful WriteHashes, and a failure of the hash
\* computation or of WriteHashes leaves the tree size unchanged.
C27_SizeAdvanceIsLast ==
    [][\A p \in Callers :
          /\ (pc'[p] = "size" /\ pc[p] # "size") =>
                /\ pc[p] = "write"
                /\ \A j \in 1..Len(hs[p]) :
                      /\ storedHashIndexes(id[p], Len(hs[p]))[j] \in DOMAIN hashes'
                      /\ hashes'[storedHashIndexes(id[p], Len(hs[p]))[j]] = hs[p][j]
          /\ (pc[p] \in {"hash", "write"} /\ pc'[p] = "done") =>
                /\ ret'[p].err \in {"ErrStoredHashes", "ErrWriteHashes"}
                /\ UNCHANGED treeSize
          /\ (pc[p] = "size" /\ pc'[p] = "done" /\ ret'[p].err = "nil") =>
                treeSize' = id[p] + 1
          /\ (pc[p] \notin {"size"} /\ pc'[p] # pc[p]) => UNCHANGED treeSize]_vars

\* after one append that set the size to 1, a second call failed in
\* WriteHashes and the size is still 1
C27_Witness ==
    \E p \in Callers :
        /\ pc[p] = "done"
        /\ ret[p].err = "ErrWriteHashes"
        /\ TotalLookups = 2
        /\ treeSize = 1

\* the order of the steps of a Lookup: each pair is a step and one that can
\* directly follow it
C28_Order ==
    {<<"idle", "fast">>, <<"done", "fast">>, <<"fast", "do">>, <<"fast", "done">>,
     <<"do", "dbl">>, <<"do", "wait">>, <<"dbl", "gomod">>, <<"dbl", "done">>,
     <<"gomod", "zip">>, <<"gomod", "done">>, <<"zip", "add">>, <<"zip", "done">>,
     <<"add", "hash">>, <<"add", "done">>, <<"hash", "write">>, <<"hash", "done">>,
     <<"write", "size">>, <<"write", "done">>, <<"size", "done">>,
     <<"wait", "woken">>, <<"woken", "done">>}

C29_HashesAfter(k, m) ==
    LET h == StoredHashes(k, RecordData(m, Zip(m), GoMod(m)))
        indexes == storedHashIndexes(k, Len(h))
        written == {indexes[i] : i \in 1..Len(h)}
    IN [x \in DOMAIN hashes \cup written |->
          IF x \in written THEN h[CHOOSE i \in 1..Len(h) : indexes[i] = x]
          ELSE hashes[x]]

\* C29: after tree.AddRecord(id, data) has succeeded, the same call made
\* again, with no other append in between, leaves every stored hash and the
\* tree size as they are.
C29_RetryIdempotent ==
    \A p \in Callers :
        (pc[p] = "done" /\ ret[p].err = "nil") =>
            /\ C29_HashesAfter(ret[p].id, mod[p]) = hashes
            /\ NewTreeSize(ret[p].id) = treeSize

\* record 3 was appended twice in a row with the same data: only its three
\* hashes are stored and the size is 4
C29_Witness ==
    \E p \in Callers :
        /\ pc[p] = "done"
        /\ ret[p] = Ok(3)
        /\ faults = 0
        /\ lookups[mod[p]] = 2
        /\ DOMAIN hashes = C26_Indexes(3)
        /\ treeSize = 4

\* C30: a record that was added but not committed (a Lookup failed between
\* AddRecord and SetTreeSize) is committed by a later Lookup of the same
\* module: when that Lookup returns the record's id, the record's hashes are
\* stored and the tree size is greater than the id.
C30_RecoveredOnDemand ==
    [][\A p \in Callers :
          (pc[p] = "fast" /\ HasRecord(mod[p]) /\ ~Durable(RecordID(mod[p]))
              /\ pc'[p] = "done" /\ ret'[p].err = "nil") =>
                /\ treeSize' > ret'[p].id
                /\ \A x \in IndexesOf(ret'[p].id) : x \in DOMAIN hashes']_vars

\* C31: the dedup key is released when the leader returns. After the only
\* earlier Lookup of a key has failed and returned, the next Lookup of the key
\* goes on to a fetch of its own instead of ending with the earlier outcome;
\* and a caller that enters the group after the leader succeeded gets the id
\* from the double-check, with no fetch.
C31_KeyReleased ==
    [][\A p \in Callers :
          /\ (pc[p] \in {"dbl", "gomod", "zip", "add", "hash", "write", "size"}
                /\ pc'[p] = "done") => flight'[mod[p]] = 0
          /\ \A q \in Callers \ {p} :
                (pc[q] = "done" /\ ret[q].err \notin {"nil", "none"} /\ mod[q] = mod[p]
                    /\ lookups[mod[p]] = 2 /\ ~cancelled[p] /\ faults' = faults) =>
                    /\ (pc[p] = "fast" /\ pc'[p] # "fast") => pc'[p] = "do"
                    /\ (pc[p] = "do" /\ pc'[p] # "do") => pc'[p] = "dbl"
                    /\ (pc[p] = "dbl" /\ pc'[p] # "dbl") => pc'[p] = "gomod"
          /\ (pc[p] = "dbl" /\ HasRecord(mod[p]) /\ pc'[p] # "dbl") =>
                /\ pc'[p] = "done"
                /\ ret'[p] = Ok(RecordID(mod[p])) \/ ret'[p].err = "ErrRecordID"
                /\ UNCHANGED <<storeVars, countVars>>]_vars

\* ---- dbStore methods called directly ----

\* largest storage index of a direct ReadHashes call
MaxIdx == 2
\* longest index list of a direct ReadHashes call
MaxLen == 3

\* a hashes table that holds a hash at each index of S
StoredAt(S) == [x \in S |-> RecordHash(x)]

\* dbStore.ReadHashes: nil for an empty list; else a result of the input's
\* length, an index map from each index to its last position in the input,
\* and one row per stored index, copied to the position the map gives
dbReadHashes(indexes) ==
    LET indexMap(idx) ==
            CHOOSE i \in 1..Len(indexes) :
                indexes[i] = idx /\ \A j \in 1..Len(indexes) : indexes[j] = idx => j <= i
    IN IF Len(indexes) = 0 THEN <<>>
       ELSE [i \in 1..Len(indexes) |->
               IF indexes[i] \in DOMAIN hashes /\ indexMap(indexes[i]) = i
               THEN hashes[indexes[i]] ELSE ZeroHash]

\* a dbStore with some hashes stored, and a list of indexes to read
InitReadHashes ==
    /\ records = <<>>
    /\ treeSize = 0
    /\ flight = [m \in Mods |-> 0]
    /\ pc = [p \in Callers |-> "idle"]
    /\ mod = [p \in Callers |-> 1]
    /\ cancelled = [p \in Callers |-> FALSE]
    /\ id = [p \in Callers |-> 0]
    /\ hs = [p \in Callers |-> <<>>]
    /\ joined = [p \in Callers |-> 0]
    /\ ret = [p \in Callers |-> NoRet]
    /\ lookups = [m \in Mods |-> 0]
    /\ gomodFetches = [m \in Mods |-> 0]
    /\ zipFetches = [m \in Mods |-> 0]
    /\ addCalls = [m \in Mods |-> 0]
    /\ faults = 0
    /\ storeKind = "sqlite"
    /\ signer = SignerIdle
    /\ heads = {}
    /\ nt = NoteIdle
    /\ \E S \in SUBSET (0..MaxIdx) : hashes = StoredAt(S)
    /\ \E n \in 0..MaxLen : \E sq \in [1..n -> 0..MaxIdx] :
          dbc = [op |-> "ReadHashes", phase |-> "call", indexes |-> sq,
                 out |-> <<>>, err |-> "none"]

\* dbStore.ReadHashes(ctx, indexes) runs: it returns the hashes, or the
\* error of a failed query
DbReadHashes ==
    /\ dbc.op = "ReadHashes"
    /\ dbc.phase = "call"
    /\ \/ /\ dbc' = [dbc EXCEPT !.phase = "ret", !.out = dbReadHashes(dbc.indexes),
                                !.err = "nil"]
          /\ UNCHANGED faults
       \/ /\ faults < MaxFaults
          /\ Len(dbc.indexes) > 0
          /\ faults' = faults + 1
          /\ dbc' = [dbc EXCEPT !.phase = "ret", !.err = "ErrQuery"]
    /\ UNCHANGED <<storeVars, lookupVars, storeKind, signer, heads, nt>>

NextReadHashes == DbReadHashes

SpecReadHashes == InitReadHashes /\ [][NextReadHashes]_vars

\* C32: dbStore.ReadHashes returns, for every list of indexes (the empty
\* list and lists that repeat an index included), a list of the same length
\* whose i-th element is the hash stored at indexes[i], or the zero hash when
\* nothing is stored there.
C32_ReadHashesByPosition ==
    (dbc.op = "ReadHashes" /\ dbc.phase = "ret" /\ dbc.err = "nil") =>
        /\ Len(dbc.out) = Len(dbc.indexes)
        /\ \A i \in 1..Len(dbc.indexes) : dbc.out[i] = ReadHash(dbc.indexes[i])

\* ---- dbStore.WithTx ----

\* most store calls fn makes on the transactional store
MaxTxOps == 2

\* the three tables of the database
StoreState == [records |-> records, hashes |-> hashes, treeSize |-> treeSize]

\* the record fetchAndStoreRecord builds for module m
RecordOf(m) == [mod |-> m, data |-> RecordData(m, Zip(m), GoMod(m))]

\* tx.Rollback discards what the transaction wrote
AfterRollbackKept(before, view) == view

AfterRollback(before, view) == before

\* tx.Commit makes what the transaction wrote the state of the database
AfterCommit(before, view) == view

\* a dbStore with some rows, and a caller about to call WithTx(ctx, fn)
InitWithTx ==
    /\ flight = [m \in Mods |-> 0]
    /\ pc = [p \in Callers |-> "idle"]
    /\ mod = [p \in Callers |-> 1]
    /\ cancelled = [p \in Callers |-> FALSE]
    /\ id = [p \in Callers |-> 0]
    /\ hs = [p \in Callers |-> <<>>]
    /\ joined = [p \in Callers |-> 0]
    /\ ret = [p \in Callers |-> NoRet]
    /\ lookups = [m \in Mods |-> 0]
    /\ gomodFetches = [m \in Mods |-> 0]
    /\ zipFetches = [m \in Mods |-> 0]
    /\ addCalls = [m \in Mods |-> 0]
    /\ faults = 0
    /\ storeKind = "sqlite"
    /\ signer = SignerIdle
    /\ heads = {}
    /\ nt = NoteIdle
    /\ \E S \in SUBSET (0..MaxIdx) : hashes = StoredAt(S)
    /\ \E r \in 0..1 :
          /\ records = [i \in 1..r |-> RecordOf(i)]
          /\ treeSize = r
    /\ dbc = [op |-> "WithTx", phase |-> "begin", n |-> 0, view |-> StoreState,
              before |-> StoreState, fnret |-> "none", out |-> "none"]

\* WithTx: s.db.BeginTx; on success fn is called with a dbStore over tx
DbBeginTx ==
    /\ dbc.op = "WithTx"
    /\ dbc.phase = "begin"
    /\ \/ /\ dbc' = [dbc EXCEPT !.phase = "fn", !.view = StoreState]
          /\ UNCHANGED faults
       \/ /\ faults < MaxFaults
          /\ faults' = faults + 1
          /\ dbc' = [dbc EXCEPT !.phase = "ret", !.out = "ErrBegin"]
    /\ UNCHANGED <<storeVars, lookupVars, storeKind, signer, heads, nt>>

\* fn calls txStore.AddRecord: INSERT INTO records through tx; a second row
\* for the same path and version violates UNIQUE(path, version)
DbTxAddRecord(m) ==
    /\ dbc.op = "WithTx"
    /\ dbc.phase = "fn"
    /\ dbc.n < MaxTxOps
    /\ dbc' = [dbc EXCEPT !.n = @ + 1,
                          !.view.records =
                              IF \E i \in 1..Len(@) : @[i].mod = m THEN @
                              ELSE Append(@, RecordOf(m))]
    /\ UNCHANGED <<storeVars, lookupVars, faults, storeKind, signer, heads, nt>>

\* fn calls txStore.WriteHashes: INSERT OR REPLACE INTO hashes through tx
DbTxWriteHashes(idx, data) ==
    /\ dbc.op = "WithTx"
    /\ dbc.phase = "fn"
    /\ dbc.n < MaxTxOps
    /\ dbc' = [dbc EXCEPT !.n = @ + 1,
                          !.view.hashes =
                              [x \in DOMAIN @ \cup {idx} |->
                                  IF x = idx THEN RecordHash(data) ELSE @[x]]]
    /\ UNCHANGED <<storeVars, lookupVars, faults, storeKind, signer, heads, nt>>

\* fn calls txStore.SetTreeSize: UPDATE tree SET size through tx
DbTxSetTreeSize(size) ==
    /\ dbc.op = "WithTx"
    /\ dbc.phase = "fn"
    /\ dbc.n < MaxTxOps
    /\ dbc' = [dbc EXCEPT !.n = @ + 1, !.view.treeSize = size]
    /\ UNCHANGED <<storeVars, lookupVars, faults, storeKind, signer, heads, nt>>

\* fn returns nil (tx.Commit, whose error is returned), returns an error
\* (tx.Rollback, the error is returned) or panics (the deferred recover
\* rolls back and panics again)
DbTxEnd(outcome) ==
    /\ dbc.op = "WithTx"
    /\ dbc.phase = "fn"
    /\ \/ /\ outcome = "nil"
          /\ LET s == AfterCommit(StoreState, dbc.view)
             IN /\ records' = s.records
                /\ hashes' = s.hashes
                /\ treeSize' = s.treeSize
          /\ dbc' = [dbc EXCEPT !.phase = "ret", !.fnret = outcome, !.out = "nil"]
          /\ UNCHANGED faults
       \/ /\ outcome = "nil"
          /\ faults < MaxFaults
          /\ faults' = faults + 1
          /\ LET s == AfterRollback(StoreState, dbc.view)
             IN /\ records' = s.records
                /\ hashes' = s.hashes
                /\ treeSize' = s.treeSize
          /\ dbc' = [dbc EXCEPT !.phase = "ret", !.fnret = outcome, !.out = "ErrCommit"]
       \/ /\ outcome \in {"ErrFn", "panic"}
          /\ LET s == AfterRollback(StoreState, dbc.view)
             IN /\ records' = s.records
                /\ hashes' = s.hashes
                /\ treeSize' = s.treeSize
          /\ dbc' = [dbc EXCEPT !.phase = "ret", !.fnret = outcome, !.out = outcome]
          /\ UNCHANGED faults
    /\ UNCHANGED <<lookupVars, storeKind, signer, heads, nt>>

NextWithTx ==
    \/ DbBeginTx
    \/ \E m \in Mods : DbTxAddRecord(m)
    \/ \E idx \in 0..MaxIdx, data \in Mods : DbTxWriteHashes(idx, data)
    \/ \E size \in 0..MaxIdx : DbTxSetTreeSize(size)
    \/ \E outcome \in {"nil", "ErrFn", "panic"} : DbTxEnd(outcome)

SpecWithTx == InitWithTx /\ [][NextWithTx]_vars

Step(p) ==
    \/ FastPath(p)
    \/ Do(p)
    \/ DoubleCheck(p)
    \/ FetchGoMod(p)
    \/ FetchZip(p)
    \/ StoreAddRecord(p)
    \/ TreeStoredHashes(p)
    \/ TreeWriteHashes(p)
    \/ TreeSetTreeSize(p)
    \/ FollowerReturn(p)

\* the key all callers look up
SameKey == CHOOSE m \in Mods : \A m2 \in Mods : m <= m2

\* concurrent Lookups of one key: the callers that meet in lookupGroup.Do
NextSameKey ==
    \/ \E p \in Callers : Lookup(p, SameKey)
    \/ \E p \in Callers : Cancel(p)
    \/ \E p \in Callers : FastPath(p)
    \/ \E p \in Callers : Do(p)
    \/ \E p \in Callers : DoubleCheck(p)
    \/ \E p \in Callers : FetchGoMod(p)
    \/ \E p \in Callers : FetchZip(p)
    \/ \E p \in Callers : StoreAddRecord(p)
    \/ \E p \in Callers : TreeStoredHashes(p)
    \/ \E p \in Callers : TreeWriteHashes(p)
    \/ \E p \in Callers : TreeSetTreeSize(p)
    \/ \E p \in Callers : FollowerReturn(p)

SpecSameKey == Init /\ [][NextSameKey]_vars

\* every goroutine that can run is scheduled, and every store and upstream
\* call it makes returns
SpecLive == Init /\ [][NextSameKey]_vars /\ \A p \in Callers : WF_vars(Step(p))

\* the key of module m is in the group only while its leader runs the
\* shared function, and a duplicate waits only on a call that is in flight
C34_SlotHeldByLeader ==
    /\ \A m \in Mods : flight[m] # 0 =>
          /\ mod[flight[m]] = m
          /\ pc[flight[m]] \in {"dbl", "gomod", "zip", "add", "hash", "write", "size"}
    /\ \A p \in Callers : pc[p] = "wait" =>
          joined[p] # 0 /\ flight[mod[p]] = joined[p]

\* C34: every Lookup call eventually returns when every store and upstream
\* call returns: a duplicate caller never waits forever, whether its leader
\* succeeds or fails, and the key is removed from the group when the leader
\* finishes.
C34_EveryLookupReturns ==
    /\ \A p \in Callers : (pc[p] \notin {"idle", "done"}) ~> (pc[p] = "done")
    /\ []C34_SlotHeldByLeader

\* a duplicate caller was handed the error of its failed leader, and the key
\* is no longer in the group
C34_Witness ==
    \E p \in Callers :
        /\ pc[p] = "woken"
        /\ ret[p].err \notin {"nil", "none"}
        /\ flight[mod[p]] = 0

\* C35: tree.AddRecord never compares id with the stored tree size: a call
\* fails only when one of its store calls fails, and after a successful call
\* AddRecord(id, data) the tree size is id+1, whatever it was before.
C35_SizeIsIdPlusOne ==
    [][\A p \in Callers :
          (pc[p] \in {"hash", "write", "size"} /\ pc'[p] = "done") =>
              /\ faults' = faults => ret'[p] = Ok(id[p])
              /\ ret'[p].err = "nil" =>
                    /\ pc[p] = "size"
                    /\ ret'[p].id = id[p]
                    /\ treeSize' = id[p] + 1]_vars

\* AddRecord(3, data) set the size to 4 and a later AddRecord(0, data)
\* succeeded: the size is 1
C35_Witness ==
    \E p \in Callers :
        /\ pc[p] = "done"
        /\ ret[p] = Ok(0)
        /\ StoredHashIndex(0, 3) \in DOMAIN hashes
        /\ treeSize = 1

\* C36: the outcome of a deduplicated Lookup is the leader's alone. A
\* duplicate caller leaves its wait only in the step in which its leader
\* finishes, with the leader's result, whether or not its own context was
\* cancelled; cancelling a duplicate's context changes nothing else; and the
\* shared function fails only through the leader's own context or a failing
\* call, the error reaching every duplicate.
C36_LeaderDecides ==
    [][\A q \in Callers :
          /\ (pc[q] = "wait" /\ pc'[q] # "wait") =>
                /\ pc'[q] = "woken"
                /\ pc[joined[q]] \in {"dbl", "gomod", "zip", "add", "hash", "write", "size"}
                /\ pc'[joined[q]] = "done"
                /\ ret'[q] = ret'[joined[q]]
          /\ (pc[q] = "wait" /\ cancelled'[q] /\ ~cancelled[q]) =>
                UNCHANGED <<storeVars, countVars, flight, pc, ret, joined, id, hs>>
          /\ (pc[q] \in {"dbl", "gomod", "zip", "add", "hash", "write", "size"}
                /\ pc'[q] = "done" /\ ret'[q].err # "nil") =>
                /\ cancelled[q] \/ faults < MaxFaults
                /\ \A f \in Callers : (pc[f] = "wait" /\ joined[f] = q) => ret'[f] = ret'[q]]_vars

\* a duplicate whose context was cancelled while it waited is handed the
\* id its leader appended
C36_Witness ==
    \E q \in Callers :
        /\ pc[q] = "woken"
        /\ cancelled[q]
        /\ ret[q].err = "nil"
        /\ treeSize = 1

\* a second client, and the module whose records it appends
Client2 == CHOOSE p \in Callers : p # Client

OtherKey == CHOOSE m \in Mods : m # SameKey

\* two clients call tree.AddRecord with any ids at the same time, each with
\* the data of its own module
NextTreeAll ==
    \/ \E k \in 0..MaxRecId : TreeAddRecord(Client, k, SameKey)
    \/ \E k \in 0..MaxRecId : TreeAddRecord(Client2, k, OtherKey)
    \/ \E p \in Callers : TreeStoredHashes(p)
    \/ \E p \in Callers : TreeWriteHashes(p)
    \/ \E p \in Callers : TreeSetTreeSize(p)

SpecTreeAll == Init /\ [][NextTreeAll]_vars

\* the storage indexes tree.AddRecord passes to WriteHashes for record k
C37_Written(k) ==
    {storedHashIndexes(k, 1 + TrailingOnes(k))[i] : i \in 1..(1 + TrailingOnes(k))}

\* C37: the sets of storage indexes tree.AddRecord writes for two distinct
\* record ids are disjoint, and in any interleaving of appends the write of
\* one id leaves the hashes stored for every other id as they were.
C37_DisjointWrites ==
    [][\A p \in Callers :
          (pc[p] = "write" /\ pc'[p] = "size") =>
              /\ DOMAIN hashes' \ DOMAIN hashes \subseteq C37_Written(id[p])
              /\ \A k \in (0..MaxRecId) \ {id[p]} :
                    /\ C37_Written(k) \cap C37_Written(id[p]) = {}
                    /\ \A x \in C37_Written(k) \cap DOMAIN hashes :
                          hashes'[x] = hashes[x]]_vars

\* the hashes of records 1 and 3 are both written, by two appends that ran
\* at the same time
C37_Witness ==
    \E p, q \in Callers :
        /\ pc[p] = "size" /\ id[p] = 1
        /\ pc[q] = "size" /\ id[q] = 3
        /\ C37_Written(1) \cup C37_Written(3) \subseteq DOMAIN hashes

====
